---- MODULE Spec2Model ----
(***************************************************************************)
(* Model of the workmate log analyzer: src/log_analyzer.py (LogEntry,      *)
(* AverageReportGenerator, LogAnalyzer) and src/main.py (the command-line  *)
(* run).                                                                   *)
(*                                                                         *)
(* Strings are sequences of one-character strings.  Response times are     *)
(* integers and an average is the exact fraction total_time / count, kept  *)
(* as the pair [num, den] and compared by cross-multiplication.            *)
(***************************************************************************)
EXTENDS Integers, Sequences, FiniteSets, TLC

VARIABLES
    url,          \* LogEntry.url of the entry get_endpoint is called on
    endpoint,     \* value returned by get_endpoint, NoEndpoint before the call
    timestamp_str,  \* the timestamp text a LogEntry is built from
    reordered,    \* the records of log_entries in another order
    reordered_report,  \* value returned by generate(reordered)
    second_report,  \* value returned by a second generate(log_entries)
    endpoint_stats,  \* generate's accumulator as the last call left it
    entry_timestamp,  \* LogEntry.timestamp, NoTimestamp before _parse_timestamp
    log_entries,  \* argument of AverageReportGenerator.generate
    report,       \* value returned by generate, NoReport before the call
    store,        \* LogAnalyzer._log_entries
    stdout,       \* what has been printed so far (warnings, errors, table)
    lastCall,     \* the last LogAnalyzer call: its arguments and outcome
    nCalls,       \* number of LogAnalyzer calls made so far
    calls,        \* the LogAnalyzer calls made so far, with their arguments
    args,         \* command line: [files |-> paths, date |-> --date value]
    fs,           \* file system: path -> what is stored there
    pc,           \* position of main()
    idx,          \* index of the next file main() loads
    exitStatus    \* exit status of the process, NotExited while running

vars == <<url, endpoint, timestamp_str, entry_timestamp, reordered,
         reordered_report, second_report, endpoint_stats, log_entries, report, store, stdout, lastCall,
          nCalls, calls, args, fs, pc, idx, exitStatus>>

entryVars == <<url, endpoint, timestamp_str, entry_timestamp>>
generatorVars == <<reordered, reordered_report, second_report, endpoint_stats>>
analyzerVars == <<store, stdout, lastCall, nCalls, calls>>
mainVars == <<args, fs, pc, idx, exitStatus>>

None == "None"
NotExited == 0 - 1

\* "not returned yet", as a value of the type the variable holds afterwards
NoEndpoint == <<"None">>
NoReport ==
    <<[endpoint |-> NoEndpoint, count |-> 0,
       avg_response_time |-> [num |-> 0, den |-> 1]]>>

NoTimestamp == [ok |-> FALSE, date |-> <<>>, time |-> <<>>, tz |-> "unset"]

\* ---------------------------------------------------------------- bounds
MaxUrlLen == 4
MaxEntries == 4
MaxLines == 3
MaxCalls == 3
MaxTotalLines == 2
MaxFsLines == 2

\* ------------------------------------------------------------ characters
Digits == {"0", "1", "2", "3", "4", "5", "6", "7", "8", "9"}

IsDigit(c) == c \in Digits

\* characters the enumerated urls are built from
Chars == {"/", "?", "7", "a"}

RECURSIVE SeqsUpTo(_, _)
SeqsUpTo(S, n) ==
    IF n = 0 THEN {<<>>}
    ELSE LET shorter == SeqsUpTo(S, n - 1)
         IN  shorter \cup {Append(s, c) : s \in {t \in shorter : Len(t) = n - 1}, c \in S}

\* the urls named by the specification's examples
UrlUsersPosts == <<"/","a","p","i","/","u","s","e","r","s","/","1","2","3",
                   "/","p","o","s","t","s","/","4","5","6","?","x","=","1">>
UrlUsersSlash == <<"/","a","p","i","/","u","s","e","r","s","/">>
UrlRoot       == <<"/">>
UrlItem42     == <<"/","a","p","i","/","v","2","/","i","t","e","m","4","2">>

ExampleUrls == {UrlUsersPosts, UrlUsersSlash, UrlRoot, UrlItem42}

Urls == SeqsUpTo(Chars, MaxUrlLen) \cup ExampleUrls

\* ------------------------------------------------- LogEntry.get_endpoint
\* url.split('?')[0]: the characters before the first '?'
RECURSIVE SplitQuery(_)
SplitQuery(s) ==
    IF s = <<>> THEN <<>>
    ELSE IF Head(s) = "?" THEN <<>>
    ELSE <<Head(s)>> \o SplitQuery(Tail(s))

\* a mutation of StripTrailingSlash: the length guard is missing
StripTrailingSlashNoGuard(p) ==
    IF Len(p) > 0 /\ p[Len(p)] = "/" THEN SubSeq(p, 1, Len(p) - 1) ELSE p

\* if url_path.endswith('/') and len(url_path) > 1: url_path = url_path[:-1]
StripTrailingSlash(p) ==
    IF Len(p) > 0 /\ p[Len(p)] = "/" /\ Len(p) > 1
    THEN SubSeq(p, 1, Len(p) - 1)
    ELSE p

\* drop the longest prefix of digits (the greedy \d+ of the pattern)
RECURSIVE SkipDigits(_)
SkipDigits(s) ==
    IF s # <<>> /\ IsDigit(Head(s)) THEN SkipDigits(Tail(s)) ELSE s

\* a mutation of ReSub: the pattern is \d+ instead of /\d+
RECURSIVE ReSubAnyDigits(_)
ReSubAnyDigits(s) ==
    IF s = <<>> THEN <<>>
    ELSE IF IsDigit(Head(s))
         THEN <<".", ".", ".">> \o ReSubAnyDigits(SkipDigits(s))
         ELSE <<Head(s)>> \o ReSubAnyDigits(Tail(s))

\* a mutation of ReSub: only the first match is replaced (count=1)
RECURSIVE ReSubFirstOnly(_)
ReSubFirstOnly(s) ==
    IF s = <<>> THEN <<>>
    ELSE IF Head(s) = "/" /\ Len(s) > 1 /\ IsDigit(s[2])
         THEN <<"/", ".", ".", ".">> \o SkipDigits(Tail(s))
         ELSE <<Head(s)>> \o ReSubFirstOnly(Tail(s))

\* re.sub(r'/\d+', '/...', s): scan left to right; at a '/' followed by a
\* digit the match takes the '/' and the whole digit run and is replaced
RECURSIVE ReSub(_)
ReSub(s) ==
    IF s = <<>> THEN <<>>
    ELSE IF Head(s) = "/" /\ Len(s) > 1 /\ IsDigit(s[2])
         THEN <<"/", ".", ".", ".">> \o ReSub(SkipDigits(Tail(s)))
         ELSE <<Head(s)>> \o ReSub(Tail(s))

get_endpoint(u) == ReSub(StripTrailingSlash(SplitQuery(u)))

\* ------------------------------------- AverageReportGenerator.generate
\* A LogEntry is [url, response_time, date]: the fields the report and the
\* date filter read.  An ordered dict is the sequence of its items in
\* insertion order.

\* index of endpoint ep in the ordered dict, 0 when it is not a key
IndexOf(stats, ep) ==
    LET hits == {i \in 1..Len(stats) : stats[i].endpoint = ep}
    IN  IF hits = {} THEN 0 ELSE CHOOSE i \in hits : TRUE

\* a mutation of AddEntry: the grouping key is the raw url
AddEntryByUrl(stats, entry) ==
    LET ep == entry.url
        known == IF IndexOf(stats, ep) = 0
                 THEN Append(stats, [endpoint |-> ep, total_time |-> 0, count |-> 0])
                 ELSE stats
        i == IndexOf(known, ep)
    IN  [known EXCEPT ![i].total_time = @ + entry.response_time,
                      ![i].count = @ + 1]

\* one iteration of the loop over log_entries (lines 58-68)
AddEntry(stats, entry) ==
    LET ep == get_endpoint(entry.url)
        known == IF IndexOf(stats, ep) = 0
                 THEN Append(stats, [endpoint |-> ep, total_time |-> 0, count |-> 0])
                 ELSE stats
        i == IndexOf(known, ep)
    IN  [known EXCEPT ![i].total_time = @ + entry.response_time,
                      ![i].count = @ + 1]

RECURSIVE Accumulate(_, _)
Accumulate(stats, entries) ==
    IF entries = <<>> THEN stats
    ELSE Accumulate(AddEntry(stats, Head(entries)), Tail(entries))

\* result[endpoint] = {count, avg_response_time = total_time / count}
Averages(stats) ==
    [i \in 1..Len(stats) |->
        [endpoint |-> stats[i].endpoint,
         count |-> stats[i].count,
         avg_response_time |-> [num |-> stats[i].total_time, den |-> stats[i].count]]]

\* comparison of two averages, each an exact fraction with den > 0
AvgLt(a, b) == a.num * b.den < b.num * a.den
AvgEq(a, b) == a.num * b.den = b.num * a.den

\* a mutation of KeyLt: the count is compared ascending
KeyLtAscendingCount(x, y) ==
    \/ x.count < y.count
    \/ x.count = y.count /\ AvgLt(x.avg_response_time, y.avg_response_time)

\* key(x) < key(y) for key = (-count, avg_response_time), compared as tuples
KeyLt(x, y) ==
    \/ (0 - x.count) < (0 - y.count)
    \/ (0 - x.count) = (0 - y.count)
         /\ AvgLt(x.avg_response_time, y.avg_response_time)

\* a mutation of InsertSorted: an unstable sort, x goes before its ties
RECURSIVE InsertSortedBeforeTies(_, _)
InsertSortedBeforeTies(sortedItems, x) ==
    IF sortedItems = <<>> THEN <<x>>
    ELSE IF ~KeyLt(Head(sortedItems), x) THEN <<x>> \o sortedItems
    ELSE <<Head(sortedItems)>> \o InsertSortedBeforeTies(Tail(sortedItems), x)

\* sorted() is stable: x goes before the first item whose key is greater
RECURSIVE InsertSorted(_, _)
InsertSorted(sortedItems, x) ==
    IF sortedItems = <<>> THEN <<x>>
    ELSE IF KeyLt(x, Head(sortedItems)) THEN <<x>> \o sortedItems
    ELSE <<Head(sortedItems)>> \o InsertSorted(Tail(sortedItems), x)

RECURSIVE Sorted(_, _)
Sorted(done, items) ==
    IF items = <<>> THEN done
    ELSE Sorted(InsertSorted(done, Head(items)), Tail(items))

generate(entries) == Sorted(<<>>, Averages(Accumulate(<<>>, entries)))

UrlA      == <<"/", "a">>
UrlASlash == <<"/", "a", "/">>
UrlB      == <<"/", "b">>
UrlSeven  == <<"/", "7">>

\* ------------------------------------------------ lines of a log file
\* A line is described by what json.loads and _create_log_entry see in it:
\*   json          "blank" (empty after strip), "invalid" (not JSON), or the
\*                 type of the JSON value: "number", "null", "string",
\*                 "list", "object"
\*   has           the object has all six required fields
\*   status        "int" (int() accepts it), "text" (a string int() rejects),
\*                 "null" (null or a nested value)
\*   response_time "num", "text", "null", likewise for float()
\*   timestamp     "d1", "d2" (a parseable string with that calendar date),
\*                 "text" (an unparseable string), "number" (not a string)
\*   url, rt       the url and the response time of the entry
NoFilter == None
Dates == {"d1", "d2"}

ObjectLine(has, status, response_time, timestamp, u, rt) ==
    [json |-> "object", has |-> has, status |-> status,
     response_time |-> response_time, timestamp |-> timestamp, url |-> u, rt |-> rt]

OtherLine(json) ==
    [json |-> json, has |-> FALSE, status |-> "int", response_time |-> "num",
     timestamp |-> "d1", url |-> <<>>, rt |-> 0]

LineA1 == ObjectLine(TRUE, "int", "num", "d1", UrlA, 1)
LineB2 == ObjectLine(TRUE, "int", "num", "d2", UrlB, 2)
LineBlank   == OtherLine("blank")
LineInvalid == OtherLine("invalid")
LineNumber  == OtherLine("number")

\* the lines every specification draws from
CoreLines == {LineA1, LineB2, LineBlank, LineInvalid, LineNumber}

\* one line for every way a line can fail, and two with two faults
AllLines ==
    CoreLines \cup
    {OtherLine("null"), OtherLine("string"), OtherLine("list"),
     ObjectLine(FALSE, "int", "num", "d1", UrlA, 1),
     ObjectLine(TRUE, "text", "num", "d1", UrlA, 1),
     ObjectLine(TRUE, "null", "num", "d1", UrlA, 1),
     ObjectLine(TRUE, "int", "text", "d1", UrlA, 1),
     ObjectLine(TRUE, "int", "null", "d1", UrlA, 1),
     ObjectLine(TRUE, "int", "num", "text", UrlA, 1),
     ObjectLine(TRUE, "int", "num", "number", UrlA, 1),
     ObjectLine(TRUE, "text", "null", "d1", UrlA, 1),
     ObjectLine(TRUE, "null", "num", "text", UrlA, 1)}

\* ------------------------------------------------------- LogAnalyzer
Returned(v) == [type |-> "return", value |-> v]
Raised(t) == [type |-> t, value |-> [url |-> <<>>, response_time |-> 0, date |-> None]]

\* LogEntry.__init__: _parse_timestamp runs first and fails on a value that
\* is not a string (no endswith) or on a string in no accepted format
LogEntryInit(timestamp, u, rt) ==
    IF timestamp = "number" THEN Raised("AttributeError")
    ELSE IF timestamp = "text" THEN Raised("ValueError")
    ELSE Returned([url |-> u, response_time |-> rt, date |-> timestamp])

\* json.loads(line) followed by _create_log_entry(log_data): the entry, or
\* the first exception raised, in the order the code evaluates
_create_log_entry(line) ==
    IF line.json = "invalid" THEN Raised("JSONDecodeError")
    ELSE IF line.json \in {"number", "null"} THEN Raised("TypeError")
    ELSE IF line.json \in {"string", "list"} THEN Raised("KeyError")
    ELSE IF ~line.has THEN Raised("KeyError")
    ELSE IF line.status = "null" THEN Raised("TypeError")
    ELSE IF line.status = "text" THEN Raised("ValueError")
    ELSE IF line.response_time = "null" THEN Raised("TypeError")
    ELSE IF line.response_time = "text" THEN Raised("ValueError")
    ELSE LogEntryInit(line.timestamp, line.url, line.rt)

\* except (json.JSONDecodeError, KeyError, ValueError)
Caught == {"JSONDecodeError", "KeyError", "ValueError"}

Warning(path, line_num) == [kind |-> "warning", path |-> path, line |-> line_num]

NoError == [type |-> "none", path |-> None]

\* the date check of lines 101-104
KeepsEntry(entry, filter_date) ==
    IF filter_date # NoFilter THEN entry.date = filter_date ELSE TRUE

\* a mutation of WrapIOError: the message does not name the file
WrapIOErrorNoPath(path) == [type |-> "Exception", path |-> None]

\* raise Exception(f"Failed to read file {file_path}: {e}")
WrapIOError(path) == [type |-> "Exception", path |-> path]

\* the loop of load_log_file from line line_num on; st is
\* [store, out, raised]
RECURSIVE LoadLines(_, _, _, _, _)
LoadLines(path, file, filter_date, line_num, st) ==
    IF line_num > Len(file.lines)
    THEN IF file.fault = "read"
         THEN [st EXCEPT !.raised = WrapIOError(path)]
         ELSE st
    ELSE LET line == file.lines[line_num]
             made == _create_log_entry(line)
         IN  IF line.json = "blank"
             THEN LoadLines(path, file, filter_date, line_num + 1, st)
             ELSE IF made.type = "return"
             THEN IF KeepsEntry(made.value, filter_date)
                  THEN LoadLines(path, file, filter_date, line_num + 1,
                                 [st EXCEPT !.store = Append(@, made.value)])
                  ELSE LoadLines(path, file, filter_date, line_num + 1, st)
             ELSE IF made.type \in Caught
             THEN LoadLines(path, file, filter_date, line_num + 1,
                            [st EXCEPT !.out = Append(@, Warning(path, line_num))])
             ELSE [st EXCEPT !.raised = [type |-> made.type, path |-> None]]

\* load_log_file(path, filter_date) on a file [lines, fault]: fault is
\* "open" when open() raises IOError, "read" when reading raises IOError
\* after the listed lines, "none" otherwise
load_log_file(path, file, filter_date, entries) ==
    IF file.fault = "open"
    THEN [store |-> entries, out |-> <<>>, raised |-> WrapIOError(path)]
    ELSE LoadLines(path, file, filter_date, 1,
                   [store |-> entries, out |-> <<>>, raised |-> NoError])

\* ------------------------------------------ specification: get_endpoint
\* Every variable that a specification does not use keeps its idle value.
NoFile == [lines |-> <<>>, fault |-> "none"]
IdleCall ==
    [op |-> None, path |-> None, file |-> NoFile, filter |-> NoFilter,
     before |-> <<>>, out |-> <<>>, raised |-> [type |-> "none", path |-> None]]
IdleArgs == [files |-> <<>>, date |-> None]

InitEndpoint ==
    /\ url \in Urls
    /\ endpoint = NoEndpoint
    /\ timestamp_str = <<>>
    /\ entry_timestamp = NoTimestamp
    /\ reordered = <<>>
    /\ reordered_report = NoReport
    /\ second_report = NoReport
    /\ endpoint_stats = <<>>
    /\ log_entries = <<>>
    /\ report = NoReport
    /\ store = <<>>
    /\ stdout = <<>>
    /\ lastCall = IdleCall
    /\ nCalls = 0
    /\ calls = <<>>
    /\ args = IdleArgs
    /\ fs = <<>>
    /\ pc = None
    /\ idx = 0
    /\ exitStatus = NotExited

\* entry.get_endpoint() on an entry whose url is the chosen string
GetEndpoint ==
    /\ endpoint = NoEndpoint
    /\ endpoint' = get_endpoint(url)
    /\ UNCHANGED <<url, timestamp_str, entry_timestamp, generatorVars, log_entries,
                   report, analyzerVars, mainVars>>

NextEndpoint == GetEndpoint

SpecEndpoint == InitEndpoint /\ [][NextEndpoint]_vars

\* ------------------------------------ specification: one load_log_file
Faults == {"none", "open", "read"}
Filters == {NoFilter} \cup Dates

\* an entry stored by an earlier load
PriorEntry == [url |-> UrlSeven, response_time |-> 2, date |-> "d2"]

InitLoad ==
    /\ url = <<>>
    /\ endpoint = NoEndpoint
    /\ timestamp_str = <<>>
    /\ entry_timestamp = NoTimestamp
    /\ reordered = <<>>
    /\ reordered_report = NoReport
    /\ second_report = NoReport
    /\ endpoint_stats = <<>>
    /\ log_entries = <<>>
    /\ report = NoReport
    /\ store \in {<<>>, <<PriorEntry>>}
    /\ stdout = <<>>
    /\ lastCall = IdleCall
    /\ nCalls = 0
    /\ calls = <<>>
    /\ args = IdleArgs
    /\ fs = <<>>
    /\ pc = None
    /\ idx = 0
    /\ exitStatus = NotExited

\* analyzer.load_log_file(path, filter_date) on a file holding these lines
LoadCall(path, file, filter_date) ==
    LET r == load_log_file(path, file, filter_date, store)
    IN  /\ store' = r.store
        /\ stdout' = stdout \o r.out
        /\ lastCall' = [op |-> "load_log_file", path |-> path, file |-> file,
                        filter |-> filter_date, before |-> store, out |-> r.out,
                        raised |-> r.raised]
        /\ nCalls' = nCalls + 1
        /\ calls' = Append(calls, [op |-> "load_log_file", file |-> file,
                                   filter |-> filter_date])

LoadOnce ==
    /\ nCalls = 0
    /\ \E lines \in SeqsUpTo(AllLines, MaxLines), fault \in Faults, filter_date \in Filters :
           LoadCall("p1", [lines |-> lines, fault |-> fault], filter_date)
    /\ UNCHANGED <<entryVars, generatorVars, log_entries, report, mainVars>>

NextLoad == LoadOnce

SpecLoad == InitLoad /\ [][NextLoad]_vars

\* ------------------------------------- specification: LogAnalyzer calls
RECURSIVE LinesUsed(_)
LinesUsed(cs) ==
    IF cs = <<>> THEN 0
    ELSE Len(Head(cs).file.lines) + LinesUsed(Tail(cs))

\* LogAnalyzer(): the state after construction
Init ==
    /\ url = <<>>
    /\ endpoint = NoEndpoint
    /\ timestamp_str = <<>>
    /\ entry_timestamp = NoTimestamp
    /\ reordered = <<>>
    /\ reordered_report = NoReport
    /\ second_report = NoReport
    /\ endpoint_stats = <<>>
    /\ log_entries = <<>>
    /\ report = NoReport
    /\ store = <<>>
    /\ stdout = <<>>
    /\ lastCall = IdleCall
    /\ nCalls = 0
    /\ calls = <<>>
    /\ args = IdleArgs
    /\ fs = <<>>
    /\ pc = None
    /\ idx = 0
    /\ exitStatus = NotExited

\* what a load can be given: a file that cannot be opened delivers no line
CallFilters == {NoFilter, "d1"}

FilesUpTo(n) ==
    {[lines |-> lines, fault |-> "none"] : lines \in SeqsUpTo(CoreLines, n)}
    \cup {[lines |-> <<>>, fault |-> "open"]}

\* analyzer.load_log_file(path, filter_date)
Load ==
    /\ nCalls < MaxCalls
    /\ \E file \in FilesUpTo(MaxTotalLines - LinesUsed(calls)), filter_date \in CallFilters :
           LoadCall("p1", file, filter_date)
    /\ UNCHANGED <<entryVars, generatorVars, log_entries, report, mainVars>>

OtherCall(op) ==
    /\ lastCall' = [IdleCall EXCEPT !.op = op, !.before = store]
    /\ nCalls' = nCalls + 1
    /\ calls' = Append(calls, [op |-> op, file |-> NoFile, filter |-> NoFilter])

\* a mutation of Copy: the caller's list is taken out of the analyzer
CopyAndDrain(entries) == [returned |-> entries, kept |-> <<>>]

\* self._log_entries.copy(): the caller gets a new list with the same items
Copy(entries) == [returned |-> entries, kept |-> entries]

\* entries = analyzer.get_log_entries()
GetLogEntries ==
    /\ nCalls < MaxCalls
    /\ log_entries' = Copy(store).returned
    /\ store' = Copy(store).kept
    /\ OtherCall("get_log_entries")
    /\ UNCHANGED <<entryVars, generatorVars, report, stdout, mainVars>>

\* analyzer.clear()
Clear ==
    /\ nCalls < MaxCalls
    /\ store' = <<>>
    /\ OtherCall("clear")
    /\ UNCHANGED <<entryVars, generatorVars, log_entries, report, stdout, mainVars>>

\* report_data = report_generator.generate(analyzer.get_log_entries()),
\* as main() does after its loads
Report ==
    /\ nCalls < MaxCalls
    /\ log_entries' = Copy(store).returned
    /\ store' = Copy(store).kept
    /\ report' = generate(Copy(store).returned)
    /\ OtherCall("report")
    /\ UNCHANGED <<entryVars, generatorVars, stdout, mainVars>>

Next == Load \/ GetLogEntries \/ Clear \/ Report

Spec == Init /\ [][Next]_vars

\* ------------------------------------------------- src/main.py: main()
Item(kind, path) == [kind |-> kind, path |-> path, line |-> 0]

\* validate_files from the i-th path on: [out, exit], exit = NotExited when
\* every path passed
RECURSIVE ValidateFrom(_, _, _, _)
ValidateFrom(files, disk, i, out) ==
    IF i > Len(files) THEN [out |-> out, exit |-> NotExited]
    ELSE LET path == files[i]
         IN  IF disk[path].kind = "missing"
             THEN [out |-> Append(out, Item("error_missing", path)), exit |-> 1]
             ELSE IF disk[path].kind # "file"
             THEN [out |-> Append(out, Item("error_not_a_file", path)), exit |-> 1]
             ELSE IF Len(disk[path].lines) = 0
             THEN ValidateFrom(files, disk, i + 1, Append(out, Item("warning_empty", path)))
             ELSE ValidateFrom(files, disk, i + 1, out)

validate_files(files, disk) == ValidateFrom(files, disk, 1, <<>>)

\* a mutation of validate_date: a bad date is reported but the run goes on
validate_date_no_exit(date) ==
    IF date = None THEN [out |-> <<>>, exit |-> NotExited, filter |-> NoFilter]
    ELSE IF date \in Dates THEN [out |-> <<>>, exit |-> NotExited, filter |-> date]
    ELSE [out |-> <<Item("error_date", None)>>, exit |-> NotExited, filter |-> NoFilter]

\* validate_date: None without --date, the date when strptime accepts the
\* text, else an error message and sys.exit(1)
validate_date(date) ==
    IF date = None THEN [out |-> <<>>, exit |-> NotExited, filter |-> NoFilter]
    ELSE IF date \in Dates THEN [out |-> <<>>, exit |-> NotExited, filter |-> date]
    ELSE [out |-> <<Item("error_date", None)>>, exit |-> 1, filter |-> NoFilter]

\* lines of the files on disk in a command-line run
MainLines == {LineA1, LineB2, LineInvalid, LineNumber}

DiskEntries ==
    {[kind |-> k, lines |-> <<>>, fault |-> "none"] : k \in {"missing", "dir"}}
    \cup {[kind |-> "file", lines |-> lines, fault |-> fault] :
            lines \in SeqsUpTo(MainLines, MaxFsLines), fault \in Faults}

\* --file given once or twice, the second time another or the same path
FileArgs == {<<"p1">>, <<"p1", "p2">>, <<"p1", "p1">>}
DateArgs == {None, "d1", "bad"}

PathsIn(files) == {files[i] : i \in 1..Len(files)}

\* the state when main() has parsed its arguments
InitMain ==
    /\ url = <<>>
    /\ endpoint = NoEndpoint
    /\ timestamp_str = <<>>
    /\ entry_timestamp = NoTimestamp
    /\ reordered = <<>>
    /\ reordered_report = NoReport
    /\ second_report = NoReport
    /\ endpoint_stats = <<>>
    /\ log_entries = <<>>
    /\ report = NoReport
    /\ store = <<>>
    /\ stdout = <<>>
    /\ lastCall = IdleCall
    /\ nCalls = 0
    /\ calls = <<>>
    /\ args \in [files : FileArgs, date : DateArgs]
    /\ fs \in [PathsIn(args.files) -> DiskEntries]
    /\ pc = "validate_files"
    /\ idx = 0
    /\ exitStatus = NotExited

\* file_paths = validate_files(args.files)
ValidateFiles ==
    /\ pc = "validate_files"
    /\ LET v == validate_files(args.files, fs)
       IN  /\ stdout' = stdout \o v.out
           /\ exitStatus' = v.exit
           /\ pc' = IF v.exit = NotExited THEN "validate_date" ELSE "exit"
    /\ UNCHANGED <<entryVars, generatorVars, log_entries, report, store, lastCall, nCalls,
                   calls, args, fs, idx>>

\* filter_date = validate_date(args.date); analyzer = LogAnalyzer()
ValidateDate ==
    /\ pc = "validate_date"
    /\ LET v == validate_date(args.date)
       IN  /\ stdout' = stdout \o v.out
           /\ exitStatus' = v.exit
           /\ pc' = IF v.exit = NotExited THEN "load" ELSE "exit"
    /\ idx' = 1
    /\ UNCHANGED <<entryVars, generatorVars, log_entries, report, store, lastCall, nCalls,
                   calls, args, fs>>

\* one round of the loop over file_paths: load_log_file, and on any
\* Exception the message "Error loading file" and sys.exit(1)
LoadFile ==
    /\ pc = "load"
    /\ idx <= Len(args.files)
    /\ LET path == args.files[idx]
           file == [lines |-> fs[path].lines, fault |-> fs[path].fault]
           filter_date == validate_date(args.date).filter
           r == load_log_file(path, file, filter_date, store)
       IN  /\ store' = r.store
           /\ lastCall' = [op |-> "load_log_file", path |-> path, file |-> file,
                           filter |-> filter_date, before |-> store, out |-> r.out,
                           raised |-> r.raised]
           /\ nCalls' = nCalls + 1
           /\ calls' = Append(calls, [op |-> "load_log_file", file |-> file,
                                      filter |-> filter_date])
           /\ IF r.raised.type = "none"
              THEN /\ stdout' = stdout \o r.out
                   /\ idx' = idx + 1
                   /\ UNCHANGED <<pc, exitStatus>>
              ELSE /\ stdout' = (stdout \o r.out) \o <<Item("error_loading", path)>>
                   /\ exitStatus' = 1
                   /\ pc' = "exit"
                   /\ UNCHANGED idx
    /\ UNCHANGED <<entryVars, generatorVars, log_entries, report, args, fs>>

\* after the loop: generate the report over get_log_entries(); print "No
\* data found" for an empty report, else the table; main() returns
PrintReport ==
    /\ pc = "load"
    /\ idx > Len(args.files)
    /\ log_entries' = Copy(store).returned
    /\ store' = Copy(store).kept
    /\ report' = generate(Copy(store).returned)
    /\ stdout' = IF generate(Copy(store).returned) = <<>>
                 THEN Append(stdout, Item("no_data", None))
                 ELSE Append(stdout, Item("table", None))
    /\ OtherCall("report")
    /\ exitStatus' = 0
    /\ pc' = "exit"
    /\ UNCHANGED <<entryVars, generatorVars, args, fs, idx>>

NextMain == ValidateFiles \/ ValidateDate \/ LoadFile \/ PrintReport

SpecMain == InitMain /\ [][NextMain]_vars

\* ----------------------------------------------------------- C6 and C7
Min(S) == CHOOSE m \in S : \A n \in S : m <= n

\* step 1 of the claim: the url cut at its first '?'
CutAtFirstQuery(u) ==
    LET qs == {i \in 1..Len(u) : u[i] = "?"}
    IN  IF qs = {} THEN u ELSE SubSeq(u, 1, Min(qs) - 1)

\* step 2 of the claim: one trailing '/' removed from a path longer than one
DropOneTrailingSlash(p) ==
    IF Len(p) > 1 /\ p[Len(p)] = "/" THEN SubSeq(p, 1, Len(p) - 1) ELSE p

\* position i of p is a digit of a digit run that starts right after a '/'
InRunAfterSlash(p, i) ==
    /\ IsDigit(p[i])
    /\ \E j \in 1..(i - 1) : p[j] = "/" /\ \A k \in (j + 1)..i : IsDigit(p[k])

\* step 3 of the claim, position by position: a '/' followed by a digit
\* becomes '/...', the digits of the run after it vanish, the rest stays
Piece(p, i) ==
    IF p[i] = "/" /\ i < Len(p) /\ IsDigit(p[i + 1]) THEN <<"/", ".", ".", ".">>
    ELSE IF InRunAfterSlash(p, i) THEN <<>>
    ELSE <<p[i]>>

RECURSIVE PiecesFrom(_, _)
PiecesFrom(p, i) == IF i > Len(p) THEN <<>> ELSE Piece(p, i) \o PiecesFrom(p, i + 1)

ThreeSteps(u) == PiecesFrom(DropOneTrailingSlash(CutAtFirstQuery(u)), 1)

EndpointUsersPosts == <<"/","a","p","i","/","u","s","e","r","s","/",".",".",".",
                        "/","p","o","s","t","s","/",".",".",".">>
EndpointUsers      == <<"/","a","p","i","/","u","s","e","r","s">>
EndpointItemDots   == <<"/","a","p","i","/","v","2","/","i","t","e","m",".",".",".">>

\* C6: for every url, get_endpoint returns the url cut at its first '?',
\* with one trailing '/' removed when more than one character remains, and
\* with every '/' followed by a maximal digit run replaced by '/...'; the
\* three example urls give '/api/users/.../posts/...', '/api/users', '/'.
C6_EndpointIsThreeSteps ==
    endpoint # NoEndpoint =>
        /\ endpoint = ThreeSteps(url)
        /\ url = UrlUsersPosts => endpoint = EndpointUsersPosts
        /\ url = UrlUsersSlash => endpoint = EndpointUsers
        /\ url = UrlRoot => endpoint = UrlRoot

\* a url where all three steps act: query cut, slash dropped, run replaced
C6_Witness ==
    /\ endpoint # NoEndpoint
    /\ url = <<"/", "7", "/", "?">>
    /\ endpoint = <<"/", ".", ".", ".">>

\* C7 as stated: '/api/v2/item42' gives '/api/v2/item...'
C7_Original == (url = UrlItem42 /\ endpoint # NoEndpoint) => endpoint = EndpointItemDots

\* C7 amended: a digit run that follows a letter is kept;
\* for '/api/v2/item42' get_endpoint returns '/api/v2/item42' unchanged.
C7_ItemUnchanged == (url = UrlItem42 /\ endpoint # NoEndpoint) => endpoint = UrlItem42

C7_Witness == url = UrlItem42 /\ endpoint = UrlItem42

\* ---------------------------------------------- specification: generate
\* urls of the generated entries: two of them share the endpoint '/a'
EntryUrls == {UrlA, UrlASlash, UrlB, UrlSeven}
Times == {1, 2}

GenEntries == [url : EntryUrls, response_time : Times, date : {"d1"}]

InitGenerate ==
    /\ url = <<>>
    /\ endpoint = NoEndpoint
    /\ timestamp_str = <<>>
    /\ entry_timestamp = NoTimestamp
    /\ reordered = <<>>
    /\ reordered_report = NoReport
    /\ second_report = NoReport
    /\ endpoint_stats = <<>>
    /\ log_entries \in SeqsUpTo(GenEntries, MaxEntries)
    /\ report = NoReport
    /\ store = <<>>
    /\ stdout = <<>>
    /\ lastCall = IdleCall
    /\ nCalls = 0
    /\ calls = <<>>
    /\ args = IdleArgs
    /\ fs = <<>>
    /\ pc = None
    /\ idx = 0
    /\ exitStatus = NotExited

\* AverageReportGenerator().generate(log_entries)
Generate ==
    /\ report = NoReport
    /\ report' = generate(log_entries)
    /\ UNCHANGED <<entryVars, generatorVars, log_entries, analyzerVars, mainVars>>

NextGenerate == Generate

SpecGenerate == InitGenerate /\ [][NextGenerate]_vars

\* ----------------------------------------------------------- C1 and C2
\* positions of the input records whose endpoint is ep
RecordsOf(entries, ep) == {k \in 1..Len(entries) : get_endpoint(entries[k].url) = ep}

RECURSIVE SumTimes(_, _)
SumTimes(entries, ks) ==
    IF ks = {} THEN 0
    ELSE LET k == CHOOSE x \in ks : TRUE
         IN  entries[k].response_time + SumTimes(entries, ks \ {k})

\* C1: the keys of the report are exactly the distinct endpoints of the
\* input records; the count of a key is the number of records with that
\* endpoint (at least 1) and its average is the sum of their response times
\* divided by that count; the empty input gives the empty mapping.
C1_ReportCountsAndAverages ==
    report # NoReport =>
        LET eps == {get_endpoint(log_entries[k].url) : k \in 1..Len(log_entries)}
        IN  /\ {report[i].endpoint : i \in 1..Len(report)} = eps
            /\ Len(report) = Cardinality(eps)
            /\ \A i \in 1..Len(report) :
                 LET ks == RecordsOf(log_entries, report[i].endpoint)
                     avg == report[i].avg_response_time
                 IN  /\ report[i].count = Cardinality(ks)
                     /\ report[i].count >= 1
                     /\ avg.den > 0
                     /\ avg.num * report[i].count = SumTimes(log_entries, ks) * avg.den
            /\ log_entries = <<>> => report = <<>>

\* two urls grouped under '/a' with average 3/2, and a second endpoint
C1_Witness ==
    /\ report # NoReport
    /\ Len(report) = 2
    /\ report[1].endpoint = UrlA
    /\ report[1].count = 2
    /\ AvgEq(report[1].avg_response_time, [num |-> 3, den |-> 2])
    /\ \E k \in 1..Len(log_entries) : log_entries[k].url = UrlASlash

\* position in the report of endpoint ep
Rank(ep) == CHOOSE i \in 1..Len(report) : report[i].endpoint = ep

\* position in the input of the first record whose endpoint is ep
FirstSeen(ep) == Min(RecordsOf(log_entries, ep))

\* C2 as stated: A comes before B if and only if count(A) > count(B), or
\* the counts are equal and avg(A) <= avg(B)
C2_Original ==
    report # NoReport =>
        \A i, j \in 1..Len(report) :
            i # j =>
                (i < j <=>
                    \/ report[i].count > report[j].count
                    \/ /\ report[i].count = report[j].count
                       /\ ~AvgLt(report[j].avg_response_time, report[i].avg_response_time))

\* C2 amended: A comes before B if and only if count(A) > count(B), or the
\* counts are equal and avg(A) < avg(B), or count and average are both
\* equal and the first record of A comes before the first record of B in
\* the input.
C2_SortOrder ==
    report # NoReport =>
        \A i, j \in 1..Len(report) :
            i # j =>
                (i < j <=>
                    \/ report[i].count > report[j].count
                    \/ /\ report[i].count = report[j].count
                       /\ AvgLt(report[i].avg_response_time, report[j].avg_response_time)
                    \/ /\ report[i].count = report[j].count
                       /\ AvgEq(report[i].avg_response_time, report[j].avg_response_time)
                       /\ FirstSeen(report[i].endpoint) < FirstSeen(report[j].endpoint))

\* all three cases in one report: '/b' leads on count, '/...' follows on
\* the smaller average although it came last, '/a' is tied with nothing
C2_Witness ==
    /\ report # NoReport
    /\ Len(report) = 3
    /\ report[1].endpoint = UrlB /\ report[1].count = 2
    /\ report[2].count = 1 /\ report[3].count = 1
    /\ AvgLt(report[2].avg_response_time, report[3].avg_response_time)
    /\ FirstSeen(report[2].endpoint) > FirstSeen(report[3].endpoint)

\* ------------------------------------------------------- C3, C4, C5
\* a line the claims call valid: a JSON object with all six required
\* fields, coercible status and response_time, and a parseable timestamp
ValidLine(line) ==
    /\ line.json = "object"
    /\ line.has
    /\ line.status = "int"
    /\ line.response_time = "num"
    /\ line.timestamp \in Dates

EntryOf(line) == [url |-> line.url, response_time |-> line.rt, date |-> line.timestamp]

\* the records of the valid lines whose date passes the filter, in order
RECURSIVE ValidEntries(_, _)
ValidEntries(lines, filter_date) ==
    IF lines = <<>> THEN <<>>
    ELSE LET line == Head(lines)
             rest == ValidEntries(Tail(lines), filter_date)
         IN  IF ValidLine(line) /\ (filter_date = NoFilter \/ line.timestamp = filter_date)
             THEN <<EntryOf(line)>> \o rest
             ELSE rest

\* one warning, with the path and the 1-based position, for every line
\* from position i on that is neither blank nor valid
RECURSIVE InvalidWarnings(_, _, _)
InvalidWarnings(path, lines, i) ==
    IF i > Len(lines) THEN <<>>
    ELSE IF lines[i].json # "blank" /\ ~ValidLine(lines[i])
         THEN <<Warning(path, i)>> \o InvalidWarnings(path, lines, i + 1)
         ELSE InvalidWarnings(path, lines, i + 1)

LoadedReadable == lastCall.op = "load_log_file" /\ lastCall.file.fault = "none"

\* C3 as stated: for every file that can be opened and read, load_log_file
\* returns normally whatever its lines contain (no exception leaves it).
C3_Original == LoadedReadable => lastCall.raised.type = "none"

\* C4 as stated: without a date filter a readable file adds exactly the
\* records of its valid lines, in file order, and prints exactly one
\* warning, carrying the path and the 1-based position, for every other
\* non-blank line; a blank line gives neither.
C4_Original ==
    (LoadedReadable /\ lastCall.filter = NoFilter) =>
        /\ store = lastCall.before \o ValidEntries(lastCall.file.lines, NoFilter)
        /\ lastCall.out = InvalidWarnings(lastCall.path, lastCall.file.lines, 1)

\* C5 as stated: with a filter date a valid line's record is appended if
\* and only if its date equals the filter date, a valid line of another
\* date is dropped without warning, and an invalid line still gives its
\* warning.
C5_Original ==
    (LoadedReadable /\ lastCall.filter # NoFilter) =>
        /\ store = lastCall.before \o ValidEntries(lastCall.file.lines, lastCall.filter)
        /\ lastCall.out = InvalidWarnings(lastCall.path, lastCall.file.lines, 1)

\* ------------------------------------------------------------- C10
\* the line makes load_log_file raise: it is not blank, gives no entry and
\* fails with an exception the loop does not catch
AbortsLoad(line) ==
    /\ line.json # "blank"
    /\ _create_log_entry(line).type \notin Caught \cup {"return"}

\* the lines a load gets through: all of them, or those before the first
\* line that makes it raise; none when the file cannot be opened
LinesRead(file) ==
    IF file.fault = "open" THEN <<>>
    ELSE LET stops == {i \in 1..Len(file.lines) : AbortsLoad(file.lines[i])}
         IN  IF stops = {} THEN file.lines
             ELSE SubSeq(file.lines, 1, Min(stops) - 1)

\* the surviving records of one load: those of the valid lines it got
\* through whose date passes its filter, in line order
SurvivingEntries(call) == ValidEntries(LinesRead(call.file), call.filter)

\* the concatenation, in call order, of the surviving records of every
\* load made since the most recent clear
RECURSIVE ExpectedStore(_)
ExpectedStore(cs) ==
    IF cs = <<>> THEN <<>>
    ELSE LET last == cs[Len(cs)]
             earlier == SubSeq(cs, 1, Len(cs) - 1)
         IN  IF last.op = "clear" THEN <<>>
             ELSE IF last.op = "load_log_file"
             THEN ExpectedStore(earlier) \o SurvivingEntries(last)
             ELSE ExpectedStore(earlier)

IsPrefix(a, b) == Len(a) <= Len(b) /\ SubSeq(b, 1, Len(a)) = a

\* C10: after any sequence of load_log_file, get_log_entries and clear
\* calls the store is the concatenation, in call order, of the surviving
\* records of every load since the most recent clear, each file's records
\* in line order; a load keeps what was stored as a prefix, get_log_entries
\* leaves the store as it was and returns its items, and the report made
\* after the loads is generated over the whole concatenation.
C10_StoreIsConcatenation ==
    /\ store = ExpectedStore(calls)
    /\ lastCall.op = "load_log_file" => IsPrefix(lastCall.before, store)
    /\ lastCall.op \in {"get_log_entries", "report"} =>
           /\ store = lastCall.before
           /\ log_entries = store
    /\ lastCall.op = "report" => report = generate(ExpectedStore(calls))

\* two files loaded one after the other, then the report over both
C10_Witness ==
    /\ Len(calls) = 3
    /\ calls[1].op = "load_log_file" /\ calls[1].file.lines = <<LineB2>>
    /\ calls[2].op = "load_log_file" /\ calls[2].file.lines = <<LineA1>>
    /\ calls[3].op = "report"
    /\ store = <<EntryOf(LineB2), EntryOf(LineA1)>>
    /\ Len(report) = 2

\* ------------------------------------------------------- C8 and C9
\* the last load hit the I/O failure: open() failed, or reading failed
\* after every listed line had been gone through
IOFailure ==
    /\ lastCall.op = "load_log_file"
    /\ \/ lastCall.file.fault = "open"
       \/ /\ lastCall.file.fault = "read"
          /\ LinesRead(lastCall.file) = lastCall.file.lines

NoTablePrinted == \A i \in 1..Len(stdout) : stdout[i].kind # "table"

BadArguments ==
    \/ \E i \in 1..Len(args.files) : fs[args.files[i]].kind # "file"
    \/ args.date \notin Dates \cup {None}

ErrorKinds == {"error_missing", "error_not_a_file", "error_date"}

NothingIngested(quiet) ==
    /\ nCalls = 0
    /\ calls = <<>>
    /\ store = <<>>
    /\ report = NoReport
    /\ pc \in {"validate_files", "validate_date", "exit"}
    /\ pc = "exit" =>
           /\ exitStatus = 1
           /\ stdout # <<>>
           /\ stdout[Len(stdout)].kind \in ErrorKinds
    /\ \A i \in 1..Len(stdout) : stdout[i].kind \notin quiet

\* C9 as stated: with a bad path or date the run prints an error and exits
\* with status 1 before any load_log_file call; no line is ingested and no
\* warning or report is produced
C9_Original ==
    BadArguments => NothingIngested({"warning", "warning_empty", "table", "no_data"})

\* C9 amended: with a bad path or date the run prints an error and exits
\* with status 1 before any load_log_file call; no line is ingested and no
\* skipped-line warning or report is produced.  (validate_files has by
\* then printed its "File is empty" warning for an empty file it passed.)
C9_ExitsBeforeLoading ==
    BadArguments => NothingIngested({"warning", "table", "no_data"})

\* a bad date after an empty file and a file with a valid line were passed
C9_Witness ==
    /\ args = [files |-> <<"p1", "p2">>, date |-> "bad"]
    /\ fs["p1"] = [kind |-> "file", lines |-> <<>>, fault |-> "none"]
    /\ fs["p2"] = [kind |-> "file", lines |-> <<LineA1>>, fault |-> "none"]
    /\ pc = "exit"
    /\ exitStatus = 1
    /\ stdout = <<Item("warning_empty", "p1"), Item("error_date", None)>>
    /\ store = <<>>

\* ------------------------------------------------------------- C15
EndsWithSlash(p) == Len(p) > 0 /\ p[Len(p)] = "/"

NoQueryMark(p) == \A i \in 1..Len(p) : p[i] # "?"

NoSlashDigit(p) == \A i \in 1..(Len(p) - 1) : ~(p[i] = "/" /\ IsDigit(p[i + 1]))

\* C15 as stated: the endpoint contains no '?', does not end with '/'
\* unless it is exactly '/', and contains no '/' followed by a digit
C15_Original ==
    endpoint # NoEndpoint =>
        /\ NoQueryMark(endpoint)
        /\ EndsWithSlash(endpoint) => endpoint = UrlRoot
        /\ NoSlashDigit(endpoint)

\* C15 amended: the endpoint contains no '?' and no '/' immediately
\* followed by a digit, and it ends with '/' exactly when the url's path
\* (the part before the first '?') is '/' or ends with '//': only one
\* trailing '/' is removed.
C15_EndpointShape ==
    endpoint # NoEndpoint =>
        LET path == CutAtFirstQuery(url)
        IN  /\ NoQueryMark(endpoint)
            /\ NoSlashDigit(endpoint)
            /\ EndsWithSlash(endpoint) <=>
                   \/ path = UrlRoot
                   \/ Len(path) >= 2 /\ path[Len(path)] = "/" /\ path[Len(path) - 1] = "/"

\* a path with a digit run and two trailing slashes: one slash is left
C15_Witness ==
    /\ url = <<"/", "7", "/", "/">>
    /\ endpoint = <<"/", ".", ".", ".", "/">>

\* ------------------------------------------------------------- C12
\* the arguments are valid and every supplied file can be opened and read
ReadableRun ==
    /\ ~BadArguments
    /\ \A i \in 1..Len(args.files) : fs[args.files[i]].fault = "none"

\* C12 as stated: with valid arguments and readable files the run exits
\* with status 0 however many lines were skipped or filtered out; it prints
\* the table when at least one record was ingested, and otherwise the
\* "No data found" message and no table.
C12_Original ==
    (ReadableRun /\ pc = "exit") =>
        /\ exitStatus = 0
        /\ stdout # <<>>
        /\ store # <<>> => stdout[Len(stdout)] = Item("table", None)
        /\ store = <<>> =>
               /\ stdout[Len(stdout)] = Item("no_data", None)
               /\ NoTablePrinted

\* ======================================================= _parse_timestamp
\* largest hour of the '+hh:mm' and '-hh:mm' offsets that are enumerated
MaxOffsetHour == 1

DigitVal(c) ==
    CASE c = "0" -> 0 [] c = "1" -> 1 [] c = "2" -> 2 [] c = "3" -> 3
      [] c = "4" -> 4 [] c = "5" -> 5 [] c = "6" -> 6 [] c = "7" -> 7
      [] c = "8" -> 8 [] c = "9" -> 9

\* int() of a run of digits
RECURSIVE IntOf(_)
IntOf(ds) ==
    IF ds = <<>> THEN 0
    ELSE 10 * IntOf(SubSeq(ds, 1, Len(ds) - 1)) + DigitVal(ds[Len(ds)])

\* str.endswith
EndsWith(s, suffix) ==
    /\ Len(s) >= Len(suffix)
    /\ SubSeq(s, Len(s) - Len(suffix) + 1, Len(s)) = suffix

\* c in s
Contains(s, c) == \E i \in 1..Len(s) : s[i] = c

\* s.split(c)[0]
SplitFirst(s, c) ==
    LET at == {i \in 1..Len(s) : s[i] = c}
    IN  IF at = {} THEN s ELSE SubSeq(s, 1, Min(at) - 1)

\* s.replace(c, rep): every occurrence of the character c
RECURSIVE Replace(_, _, _)
Replace(s, c, rep) ==
    IF s = <<>> THEN <<>>
    ELSE (IF Head(s) = c THEN rep ELSE <<Head(s)>>) \o Replace(Tail(s), c, rep)

ZeroOffset == <<"+", "0", "0", ":", "0", "0">>

\* lines 22-25 with the '+00:00' suffix cut one character short
NormalizeCutsFive(s) ==
    IF EndsWith(s, ZeroOffset) THEN SubSeq(s, 1, Len(s) - 5) \o <<"Z">>
    ELSE IF Contains(s, "+") THEN SplitFirst(s, "+") \o <<"Z">>
    ELSE s

\* lines 22-25: a '+00:00' suffix becomes 'Z'; otherwise everything from the
\* first '+' on becomes 'Z'
Normalize(s) ==
    IF EndsWith(s, ZeroOffset) THEN SubSeq(s, 1, Len(s) - 6) \o <<"Z">>
    ELSE IF Contains(s, "+") THEN SplitFirst(s, "+") \o <<"Z">>
    ELSE s

\* the text cut into runs of digits and single other characters
RECURSIVE Tokens(_)
Tokens(s) ==
    IF s = <<>> THEN <<>>
    ELSE IF ~IsDigit(Head(s)) THEN <<<<Head(s)>>>> \o Tokens(Tail(s))
    ELSE LET rest == Tokens(Tail(s))
         IN  IF rest # <<>> /\ IsDigit(rest[1][1])
             THEN <<<<Head(s)>> \o rest[1]>> \o Tail(rest)
             ELSE <<<<Head(s)>>>> \o rest

IsLeap(y) == (y % 4 = 0 /\ y % 100 # 0) \/ y % 400 = 0

DaysInMonth(y, m) ==
    IF m = 2 THEN (IF IsLeap(y) THEN 29 ELSE 28)
    ELSE IF m \in {4, 6, 9, 11} THEN 30 ELSE 31

ValueError == [ok |-> FALSE, date |-> <<>>, time |-> <<>>, tz |-> "ValueError"]

\* the datetime constructor: the range checks on its fields
datetime(y, m, d, H, M, S, tz) ==
    IF /\ y \in 1..9999 /\ m \in 1..12 /\ d \in 1..DaysInMonth(y, m)
       /\ H \in 0..23 /\ M \in 0..59 /\ S \in 0..59
    THEN [ok |-> TRUE, date |-> <<y, m, d>>, time |-> <<H, M, S>>, tz |-> tz]
    ELSE ValueError

\* the six number fields of 'Y-m-dTH:M:S', or <<>> when the text is not six
\* digit runs joined by exactly these separators
DateTimeFields(s) ==
    LET t == Tokens(s)
    IN  IF /\ Len(t) = 11
           /\ \A i \in {1, 3, 5, 7, 9, 11} : IsDigit(t[i][1])
           /\ <<t[2], t[4], t[6], t[8], t[10]>> =
                  <<<<"-">>, <<"-">>, <<"T">>, <<":">>, <<":">>>>
        THEN <<t[1], t[3], t[5], t[7], t[9], t[11]>>
        ELSE <<>>

\* datetime.fromisoformat on the texts enumerated here: 'YYYY-MM-DDTHH:MM:SS'
\* with every field at full width, alone or followed by '+hh:mm' or '-hh:mm'
\* (hh < 24, mm < 60); the fields are kept as written and the offset only
\* sets tzinfo.  Any other enumerated text is a ValueError.
fromisoformat(s) ==
    LET f   == DateTimeFields(SubSeq(s, 1, Min({19, Len(s)})))
        off == SubSeq(s, 20, Len(s))
        offOk ==
            /\ Len(off) = 6
            /\ off[1] \in {"+", "-"}
            /\ IsDigit(off[2]) /\ IsDigit(off[3]) /\ off[4] = ":"
            /\ IsDigit(off[5]) /\ IsDigit(off[6])
            /\ IntOf(<<off[2], off[3]>>) < 24
            /\ IntOf(<<off[5], off[6]>>) < 60
    IN  IF f = <<>> \/ <<Len(f[1]), Len(f[2]), Len(f[3]), Len(f[4]), Len(f[5]), Len(f[6])>>
                          # <<4, 2, 2, 2, 2, 2>>
        THEN ValueError
        ELSE IF off = <<>>
        THEN datetime(IntOf(f[1]), IntOf(f[2]), IntOf(f[3]),
                      IntOf(f[4]), IntOf(f[5]), IntOf(f[6]), "naive")
        ELSE IF offOk
        THEN datetime(IntOf(f[1]), IntOf(f[2]), IntOf(f[3]),
                      IntOf(f[4]), IntOf(f[5]), IntOf(f[6]),
                      IF IntOf(<<off[2], off[3]>>) = 0 /\ IntOf(<<off[5], off[6]>>) = 0
                      THEN "utc" ELSE "offset")
        ELSE ValueError

\* datetime.strptime(s, '%Y-%m-%dT%H:%M:%S'): a four-digit year, the other
\* fields of one or two digits within the ranges of the format's patterns,
\* nothing left over; the result is a naive datetime
strptime(s) ==
    LET f == DateTimeFields(s)
    IN  IF f = <<>> \/ Len(f[1]) # 4 \/ \E i \in 2..6 : Len(f[i]) > 2
        THEN ValueError
        ELSE IF /\ IntOf(f[2]) \in 1..12 /\ IntOf(f[3]) \in 1..31
                /\ IntOf(f[4]) \in 0..23 /\ IntOf(f[5]) \in 0..59
                /\ IntOf(f[6]) \in 0..61
        THEN datetime(IntOf(f[1]), IntOf(f[2]), IntOf(f[3]),
                      IntOf(f[4]), IntOf(f[5]), IntOf(f[6]), "naive")
        ELSE ValueError

\* lines 27-31: fromisoformat of the text with 'Z' spelled '+00:00', and on
\* ValueError strptime of the text without 'Z'
ParseNormalized(s) ==
    LET iso == fromisoformat(Replace(s, "Z", ZeroOffset))
    IN  IF iso.ok THEN iso ELSE strptime(Replace(s, "Z", <<>>))

_parse_timestamp(s) == ParseNormalized(Normalize(s))

\* ---- the enumerated timestamp texts
DigitChar == <<"0", "1", "2", "3", "4", "5", "6", "7", "8", "9">>
Two(n) == <<DigitChar[(n \div 10) + 1], DigitChar[(n % 10) + 1]>>
Four(n) == Two(n \div 100) \o Two(n % 100)

DateText(y, m, d) == Four(y) \o <<"-">> \o Two(m) \o <<"-">> \o Two(d)
TimeText(H, M, S) == Two(H) \o <<":">> \o Two(M) \o <<":">> \o Two(S)

StampYears == {2024, 2025}
StampMonths == {2, 6, 13}
StampDays == {22, 29, 31}
StampTimes == {<<13, 57, 32>>, <<23, 59, 59>>, <<24, 0, 0>>, <<13, 57, 60>>}

\* texts of the form YYYY-MM-DDTHH:MM:SS, some of them no date or no time
PlainTexts ==
    {DateText(y, m, d) \o <<"T">> \o TimeText(t[1], t[2], t[3]) :
        y \in StampYears, m \in StampMonths, d \in StampDays, t \in StampTimes}

\* texts whose month is written with one digit
LooseTexts ==
    {Four(y) \o <<"-", "6", "-">> \o Two(d) \o <<"T">> \o TimeText(13, 57, 32) :
        y \in StampYears, d \in StampDays}

OffsetText(sign, hh, mm) == <<sign>> \o Two(hh) \o <<":">> \o Two(mm)

Offsets ==
    {OffsetText(sign, hh, mm) :
        sign \in {"+", "-"}, hh \in 0..MaxOffsetHour, mm \in {0, 30}}

Suffixes ==
    {<<>>, <<"Z">>} \cup Offsets \cup {OffsetText("+", 5, 30) \o ZeroOffset}

TimestampTexts == {t \o x : t \in PlainTexts \cup LooseTexts, x \in Suffixes}

\* ---- SpecTimestamp: one LogEntry built from one timestamp text
InitTimestamp ==
    /\ url = <<>>
    /\ endpoint = NoEndpoint
    /\ timestamp_str \in TimestampTexts
    /\ entry_timestamp = NoTimestamp
    /\ reordered = <<>>
    /\ reordered_report = NoReport
    /\ second_report = NoReport
    /\ endpoint_stats = <<>>
    /\ log_entries = <<>>
    /\ report = NoReport
    /\ store = <<>>
    /\ stdout = <<>>
    /\ lastCall = IdleCall
    /\ nCalls = 0
    /\ calls = <<>>
    /\ args = IdleArgs
    /\ fs = <<>>
    /\ pc = None
    /\ idx = 0
    /\ exitStatus = NotExited

\* LogEntry.__init__, line 14
ParseTimestamp ==
    /\ entry_timestamp = NoTimestamp
    /\ entry_timestamp' = _parse_timestamp(timestamp_str)
    /\ UNCHANGED <<url, endpoint, timestamp_str, generatorVars, log_entries,
                   report, analyzerVars, mainVars>>

NextTimestamp == ParseTimestamp

SpecTimestamp == InitTimestamp /\ [][NextTimestamp]_vars

\* ------------------------------------------------------------- C11
\* s is written YYYY-MM-DDTHH:MM:SS: digits and separators in their places
PlainForm(s) ==
    /\ Len(s) = 19
    /\ \A i \in 1..19 :
           IF i \in {5, 8} THEN s[i] = "-"
           ELSE IF i = 11 THEN s[i] = "T"
           ELSE IF i \in {14, 17} THEN s[i] = ":"
           ELSE IsDigit(s[i])

\* x is nothing, 'Z', or a '+hh:mm' offset
ClaimedSuffix(x) ==
    \/ x = <<>>
    \/ x = <<"Z">>
    \/ /\ Len(x) = 6 /\ x[1] = "+" /\ x[4] = ":"
       /\ \A i \in {2, 3, 5, 6} : IsDigit(x[i])

\* the text is some T of the plain form followed by one of the claimed suffixes
ClaimedText(s) ==
    /\ Len(s) >= 19
    /\ PlainForm(SubSeq(s, 1, 19))
    /\ ClaimedSuffix(SubSeq(s, 20, Len(s)))

WrittenDate(s) ==
    <<IntOf(SubSeq(s, 1, 4)), IntOf(SubSeq(s, 6, 7)), IntOf(SubSeq(s, 9, 10))>>

WrittenTime(s) ==
    <<IntOf(SubSeq(s, 12, 13)), IntOf(SubSeq(s, 15, 16)), IntOf(SubSeq(s, 18, 19))>>

\* C11: for a text T of the form YYYY-MM-DDTHH:MM:SS, the record built from
\* T, from T followed by 'Z', from T followed by '+00:00' and from T followed
\* by any other '+hh:mm' offset is built exactly when the record from T alone
\* is, and its calendar date and wall-clock time are the ones written in T:
\* a non-zero '+' offset is dropped, not converted.
C11_SameDateAndTime ==
    (ClaimedText(timestamp_str) /\ entry_timestamp # NoTimestamp) =>
        LET T == SubSeq(timestamp_str, 1, 19)
        IN  /\ entry_timestamp.ok = _parse_timestamp(T).ok
            /\ entry_timestamp.ok =>
                   /\ entry_timestamp.date = WrittenDate(T)
                   /\ entry_timestamp.time = WrittenTime(T)

\* a record built from a text with a non-zero '+' offset, late in the day
C11_Witness ==
    /\ timestamp_str = DateText(2024, 2, 29) \o <<"T">> \o TimeText(23, 59, 59)
                           \o OffsetText("+", 1, 30)
    /\ entry_timestamp.ok
    /\ entry_timestamp.date = <<2024, 2, 29>>
    /\ entry_timestamp.time = <<23, 59, 59>>

\* ================================================= generate, call by call
\* longest input of the reordering specification
MaxReorder == 3

\* a mutation of StatsAtCall: the accumulator of the last call is kept
StatsAtCallKept(previous) == previous

\* line 56: every call starts from an empty endpoint_stats
StatsAtCall(previous) == <<>>

\* one call of generate: the accumulator it builds (lines 56-68), the mapping
\* it returns (lines 71-80) and the list it was given, which it only reads
generate_call(previous, entries) ==
    LET stats == Accumulate(StatsAtCall(previous), entries)
    IN  [endpoint_stats |-> stats,
         returned |-> Sorted(<<>>, Averages(stats)),
         entries |-> entries]

ReorderUrls == {UrlA, UrlASlash, UrlB}
ReorderEntries == [url : ReorderUrls, response_time : Times, date : {"d1"}]

\* every ordering of the records of entries
Orderings(entries) ==
    LET n == Len(entries)
        bijections == {f \in [1..n -> 1..n] : \A i, j \in 1..n : f[i] = f[j] => i = j}
    IN  {[i \in 1..n |-> entries[f[i]]] : f \in bijections}

\* the analyzer holds the records, log_entries is its get_log_entries() and
\* reordered holds the same records in some order
InitReorder ==
    /\ url = <<>>
    /\ endpoint = NoEndpoint
    /\ timestamp_str = <<>>
    /\ entry_timestamp = NoTimestamp
    /\ log_entries \in SeqsUpTo(ReorderEntries, MaxReorder)
    /\ reordered \in Orderings(log_entries)
    /\ reordered_report = NoReport
    /\ second_report = NoReport
    /\ endpoint_stats = <<>>
    /\ report = NoReport
    /\ store = Copy(log_entries).kept
    /\ stdout = <<>>
    /\ lastCall = IdleCall
    /\ nCalls = 0
    /\ calls = <<>>
    /\ args = IdleArgs
    /\ fs = <<>>
    /\ pc = None
    /\ idx = 0
    /\ exitStatus = NotExited

\* report = AverageReportGenerator().generate(log_entries)
GenerateFirst ==
    /\ report = NoReport
    /\ LET r == generate_call(endpoint_stats, log_entries)
       IN  /\ report' = r.returned
           /\ endpoint_stats' = r.endpoint_stats
           /\ log_entries' = r.entries
    /\ lastCall' = [IdleCall EXCEPT !.op = "generate", !.before = log_entries]
    /\ UNCHANGED <<entryVars, reordered, reordered_report, second_report,
                   store, stdout, nCalls, calls, mainVars>>

\* the same call once more, on the same list
GenerateAgain ==
    /\ report # NoReport
    /\ second_report = NoReport
    /\ LET r == generate_call(endpoint_stats, log_entries)
       IN  /\ second_report' = r.returned
           /\ endpoint_stats' = r.endpoint_stats
           /\ log_entries' = r.entries
    /\ lastCall' = [IdleCall EXCEPT !.op = "generate", !.before = log_entries]
    /\ UNCHANGED <<entryVars, reordered, reordered_report, report,
                   store, stdout, nCalls, calls, mainVars>>

\* generate on the other ordering of the records
GenerateReordered ==
    /\ reordered_report = NoReport
    /\ LET r == generate_call(endpoint_stats, reordered)
       IN  /\ reordered_report' = r.returned
           /\ endpoint_stats' = r.endpoint_stats
           /\ reordered' = r.entries
    /\ UNCHANGED <<entryVars, second_report, log_entries, report,
                   analyzerVars, mainVars>>

NextReorder == GenerateFirst \/ GenerateAgain \/ GenerateReordered

SpecReorder == InitReorder /\ [][NextReorder]_vars

\* ------------------------------------------------------------- C13
\* position in the mapping rows of endpoint ep
PlaceIn(rows, ep) == CHOOSE i \in 1..Len(rows) : rows[i].endpoint = ep

\* position in entries of the first record whose endpoint is ep
FirstIn(entries, ep) == Min(RecordsOf(entries, ep))

\* C13 as stated: two orderings of the same records give the same report,
\* the same endpoints with the same count and average in the same order.
C13_Original ==
    (report # NoReport /\ reordered_report # NoReport) => reordered_report = report

\* C13 amended: two orderings of the same records give the same endpoints
\* with the same count and average; two endpoints that differ in count or
\* in average are listed in the same relative order in both reports, and two
\* endpoints tied on both are listed, in each report, in the order of their
\* first records in that report's input.
C13_SameRowsTiesByArrival ==
    (report # NoReport /\ reordered_report # NoReport) =>
        /\ Len(reordered_report) = Len(report)
        /\ {reordered_report[i] : i \in 1..Len(reordered_report)} =
               {report[i] : i \in 1..Len(report)}
        /\ \A i, j \in 1..Len(report) :
               i # j =>
                   LET a == report[i].endpoint
                       b == report[j].endpoint
                       tied == /\ report[i].count = report[j].count
                               /\ AvgEq(report[i].avg_response_time,
                                        report[j].avg_response_time)
                       before == PlaceIn(reordered_report, a) < PlaceIn(reordered_report, b)
                   IN  IF tied
                       THEN /\ i < j <=> FirstIn(log_entries, a) < FirstIn(log_entries, b)
                            /\ before <=> FirstIn(reordered, a) < FirstIn(reordered, b)
                       ELSE i < j <=> before

\* two tied endpoints arriving in opposite orders are listed in opposite orders
C13_Witness ==
    /\ log_entries = <<[url |-> UrlB, response_time |-> 1, date |-> "d1"],
                       [url |-> UrlA, response_time |-> 1, date |-> "d1"]>>
    /\ reordered = <<log_entries[2], log_entries[1]>>
    /\ report # NoReport
    /\ reordered_report # NoReport
    /\ report[1].endpoint = UrlB
    /\ reordered_report[1].endpoint = UrlA

\* ------------------------------------------------------------- C14
\* C14: generate keeps no state between calls and changes nothing it is
\* given: after a call the input sequence with every field of its records,
\* and the analyzer's store, are as they were before the call, and a second
\* call on the same sequence returns the same rows in the same order.
C14_NoStateNoEffect ==
    /\ lastCall.op = "generate" =>
           /\ log_entries = lastCall.before
           /\ store = lastCall.before
    /\ second_report # NoReport => second_report = report

\* a second call on three records of two endpoints, one of them seen twice
C14_Witness ==
    /\ second_report # NoReport
    /\ Len(log_entries) = 3
    /\ Len(second_report) = 2
    /\ second_report[1].count = 2
    /\ store = log_entries

====
